---------------------------- MODULE Spec2Model ----------------------------
(***************************************************************************)
(* Model of the Come Down cache: the retain-counted cache store            *)
(* (CacheManager) and the reconciliation pass (ComeDownPlugin.requestCache *)
(* with ProcessingPass).                                                   *)
(*                                                                         *)
(* An asynchronous method is a sequence of atomic steps: each step runs    *)
(* from one await on storage or network I/O to the next.  The effect of an *)
(* I/O call on the disk is applied when the call is issued, together with  *)
(* its outcome (resolve or reject); the code after the await runs in a     *)
(* later step, so other operations can run in between.                     *)
(***************************************************************************)
EXTENDS Integers, Sequences, FiniteSets, TLC

(***************************************************************************)
(* Bounds of the model.                                                    *)
(***************************************************************************)
MaxReq == 2     \* longest request list handed to updateRetainedCaches
MaxTasks == 1   \* store operations suspended at an await at once
MaxDownloads == 2   \* downloads one pass has in flight at once
MaxEdits == 1       \* edits of a locator by the user
MaxWrites == 3      \* writes of the metadata file by any instance
NumQueueEls == 2    \* placeholders of the note the queued passes work on
MaxOps == 4         \* operations handed to ProcessingPass.enqueue
MaxSeqNum == 2      \* view updates counted by one EditorViewPlugin

(***************************************************************************)
(* Sources (locators) are sequences of tokens: optional blanks, a scheme,  *)
(* and the rest of the URL.                                                *)
(***************************************************************************)
SP == " "
S1 == <<"https:", "a.png">>
S1p == <<SP, "https:", "a.png">>   \* S1 with a leading blank
S2 == <<"https:", "b.png">>
EmptySrc == <<>>
LocalSrc == <<"file:", "x.png">>
RelSrc == <<"x.png">>
NoFileSrc == <<"https:", "">>      \* a URL whose path ends with "/"
ValidSources == {S1, S1p, S2}
InvalidSources == {EmptySrc, LocalSrc, RelSrc}
Schemes == {"http:", "https:", "file:"}
PassPath == "A.md"
Paths == {PassPath, "B.md"}

Range(s) == {s[i] : i \in 1..Len(s)}
Includes(s, x) == \E i \in 1..Len(s) : s[i] = x

RECURSIVE TrimStart(_)
TrimStart(s) == IF s # <<>> /\ Head(s) = SP THEN TrimStart(Tail(s)) ELSE s

RECURSIVE TrimEnd(_)
TrimEnd(s) ==
    IF s # <<>> /\ s[Len(s)] = SP THEN TrimEnd(SubSeq(s, 1, Len(s) - 1)) ELSE s

\* String.prototype.trim
Trim(s) == TrimEnd(TrimStart(s))

\* new URL(src): blanks around the input are stripped; parsing throws
\* unless a scheme is followed by something.
ParseUrl(src) ==
    LET t == Trim(src)
    IN  IF Len(t) >= 2 /\ t[1] \in Schemes
        THEN [ok |-> TRUE, protocol |-> t[1]]
        ELSE [ok |-> FALSE, protocol |-> ""]

isExternal(src) ==
    LET url == ParseUrl(src)
    IN  url.ok /\ (url.protocol = "http:" \/ url.protocol = "https:")

\* The 64-bit hash of the trimmed text; distinct texts get distinct hashes.
hashString(text) == [h64 |-> Trim(text)]

\* null (FALSE) when the URL does not parse or its path has no file name
extractFilenameAndExtension(src) ==
    LET t == Trim(src)
    IN  ParseUrl(src).ok /\ t[2] # ""

createCacheKeyFromOriginalSrc(src) == hashString(src)

createCacheKeyFromRequest(request) ==
    createCacheKeyFromOriginalSrc(request.source)

createRequest(src, path) == [source |-> src, requesterPath |-> path]

Keys == {createCacheKeyFromOriginalSrc(s) : s \in ValidSources}
K1 == createCacheKeyFromOriginalSrc(S1)
K2 == createCacheKeyFromOriginalSrc(S2)

validateRequest_acceptsAll(request) == "none"

\* "none" when the request is valid, else the error.
validateRequest(request) ==
    IF Len(request.source) = 0 THEN "KeyNotSet"
    ELSE IF ~isExternal(request.source) THEN "NotExternal"
    ELSE "none"

(***************************************************************************)
(* State.                                                                  *)
(***************************************************************************)
VARIABLES
    retainers,          \* metadataRoot.retainers: path -> ref (array of keys)
    items,              \* the keys of metadataRoot.items
    blobs,              \* the keys whose blob file is in the cache directory
    isMetadataDirty,
    persisted,          \* the root in the metadata file
    EMPTY_CACHE_ROOT,   \* the shared constant's two objects, or [aliased |-> TRUE]
                        \* while metadataRoot's retainers and items ARE those objects
    tasks,              \* asynchronous store operations suspended at an await
    call,               \* the store operation that acted last (history)
    els,                \* the <img> placeholders: original source and cache state
    pass                \* the reconciliation pass running requestCache

storeVars == <<retainers, items, blobs, isMetadataDirty, persisted,
               EMPTY_CACHE_ROOT>>
passVars == <<els, pass>>
vars == <<retainers, items, blobs, isMetadataDirty, persisted,
          EMPTY_CACHE_ROOT, tasks, call, els, pass>>

Aliased == [aliased |-> TRUE]
NoRetainers == [p \in {} |-> <<>>]
EmptyRoot == [retainers |-> NoRetainers, items |-> {}]
Other == [op |-> "other", n |-> 0]
\* task is the suspended call's id while res is "running", else 0; n
\* alternates from one call to the next.
UpdateCall(p, requests, res, task) ==
    [op |-> "update", path |-> p, reqs |-> requests, res |-> res,
     task |-> task, n |-> 1 - call.n]

Del(rets, p) == [q \in DOMAIN rets \ {p} |-> rets[q]]
Put(rets, p, ref) == [q \in DOMAIN rets \cup {p} |-> IF q = p THEN ref ELSE rets[q]]

Occurrences_none(ref, k) == 0

\* The occurrences of a key in one ref, each counted by retainCount.
Occurrences(ref, k) == Cardinality({i \in 1..Len(ref) : ref[i] = k})

RECURSIVE CountRefs(_, _, _)
CountRefs(rets, ps, k) ==
    IF ps = {} THEN 0
    ELSE LET p == CHOOSE q \in ps : TRUE
         IN  Occurrences(rets[p], k) + CountRefs(rets, ps \ {p}, k)

\* retainCount(byRetainer): the registered keys are byRetainer.ref, or all
\* of items; every occurrence of a registered key in a ref counts.
retainCount(rets, registered) ==
    [k \in registered |-> CountRefs(rets, DOMAIN rets, k)]

pushCacheKey_noDedup(newCi, cacheKey) == Append(newCi, cacheKey)

\* updateRetainedCaches, the body of the loop over the requests
pushCacheKey(newCi, cacheKey) ==
    IF ~Includes(newCi, cacheKey) THEN Append(newCi, cacheKey) ELSE newCi

RECURSIVE NewCi(_, _)
NewCi(requests, newCi) ==
    IF requests = <<>> THEN newCi
    ELSE NewCi(Tail(requests),
               pushCacheKey(newCi, createCacheKeyFromRequest(Head(requests))))

\* removeCacheItem returns at once for a key without metadata: the loops
\* over the keys to delete run on to the first key that needs adapter.remove.
RECURSIVE SkipMissing(_, _)
SkipMissing(todo, its) ==
    IF todo = <<>> \/ Head(todo) \in its THEN todo
    ELSE SkipMissing(Tail(todo), its)

\* The retainer objects that suspended updateRetainedCaches calls hold:
\* at a path of the map, or no longer in the map.
Detached(rets, q) ==
    IF rets[q] = <<>> THEN "detached_empty" ELSE "detached_nonempty"

DetachAt(ts, rets, q) ==
    {IF t.kind = "upd" /\ t.at = q /\ q \in DOMAIN rets
     THEN [t EXCEPT !.at = Detached(rets, q)] ELSE t : t \in ts}

HeldIsEmpty(rets, at) ==
    IF at \in DOMAIN rets THEN rets[at] = <<>> ELSE at = "detached_empty"

FreeIdIn(ts) == CHOOSE i \in 1..(MaxTasks + MaxDownloads) :
                  /\ \A t \in ts : t.id # i
                  /\ \A j \in 1..(i - 1) : \E t \in ts : t.id = j
\* MaxTasks bounds the operations the store's clients have suspended;
\* the downloads of a pass (cb # 0) are bounded by MaxDownloads.
CanSpawnIn(ts) ==
    Cardinality({t \in ts : ~(t.kind = "dl" /\ t.cb # 0)}) < MaxTasks
CanSpawn == CanSpawnIn(tasks)

\* vu is the view-update pass waiting in the serial queue ("none" when
\* there is none); edited records the placeholder the user edited last and
\* the source it had been loaded from, edits the number of edits.
\* No edit of a locator yet; else the placeholder, its stored source and
\* state before the edit, the new locator, and whether the note's refs
\* and items held the key of the stored source.
NoEdit == [el |-> 0, from |-> <<>>, to |-> <<>>, state |-> "ORIGINAL",
           retained |-> FALSE, cached |-> FALSE]

\* The metadata file's modification time and the store's
\* metadataFileLastModified after create, which has read or written the
\* file; for the properties: whether another instance wrote the file since
\* this one last recorded its time, whether that was after a read or a
\* write, and how the last check ended.
\* The part of the note outside the viewport: the locators of its
\* embeds, and whether the parser finishes the note within the timeout.
NoDoc == [outside |-> <<>>, parsed |-> TRUE]

\* The associatedFile of a pass whose context found no file.
NoFile == "null"

(***************************************************************************)
(* EditorViewPlugin: the metadata kept on the EditorViews.  objects holds   *)
(* the EditorViewMetadata objects by reference: the module constant DEFAULT *)
(* is the only one the code makes.  metadata[v] is the reference stored on  *)
(* view v under METADATA_KEY, or "undefined".                               *)
(***************************************************************************)
Views == {"view1", "view2"}

NoViews ==
    [objects |-> [r \in {"DEFAULT"} |-> [requesterPath |-> "null"]],
     metadata |-> [v \in Views |-> "undefined"],
     seqNum |-> [v \in Views |-> 0],
     file |-> [v \in Views |-> PassPath],
     aborted |-> [v \in Views |-> FALSE]]

FileTimes ==
    [mtime |-> 1, metadataFileLastModified |-> 1, foreign |-> FALSE,
     lastOwn |-> "read", lastCheck |-> "none"]

IdlePass ==
    [pc |-> "idle", imageElements |-> <<>>, groups |-> <<>>, cur |-> 0,
     numberOfRemainingDownloads |-> 0, requestsToRetain |-> <<>>, ends |-> 0,
     vu |-> "none", edited |-> NoEdit, edits |-> 0,
     inFlightAtClear |-> {}, cleared |-> FALSE,
     before |-> [items |-> {}, blobs |-> {}], lastSave |-> "none",
     file |-> FileTimes, doc |-> NoDoc,
     requesterPath |-> PassPath, abort |-> "none",
     associatedFile |-> PassPath, serialQueue |-> <<>>,
     views |-> NoViews]

\* The roots a metadata file left by an earlier session can hold.
InitRoots ==
    {EmptyRoot,
     [retainers |-> [p \in Paths |-> <<K1>>], items |-> {K1}],
     [retainers |-> [p \in Paths |-> IF p = PassPath THEN <<K1, K2>>
                                     ELSE <<K1>>],
      items |-> {K1, K2}]}

\* After CacheManager.create: the metadata file was read; without a file
\* resetMetadata made the root from EMPTY_CACHE_ROOT and wrote it.
Init ==
    /\ \E root \in InitRoots, metadataFileExists \in BOOLEAN :
         /\ root # EmptyRoot => metadataFileExists
         /\ retainers = root.retainers
         /\ items = root.items
         /\ blobs = root.items
         /\ persisted = root
         /\ EMPTY_CACHE_ROOT = IF metadataFileExists THEN EmptyRoot
                               ELSE Aliased
    /\ isMetadataDirty = FALSE
    /\ tasks = {}
    /\ call = Other
    /\ els = <<>>
    /\ pass = IdlePass

(***************************************************************************)
(* updateRetainedCaches(requests, retainerPath)                            *)
(***************************************************************************)
StoreSources == {S1, S2}
RequestLists ==
    UNION {[1..n -> StoreSources] : n \in 0..MaxReq}

Requests(srcs, p) == [i \in 1..Len(srcs) |-> createRequest(srcs[i], p)]

\* The end of updateRetainedCaches: the record is deleted when the retainer
\* object the call holds has an empty ref.
UpdateFinish(rets, ts, p, at) ==
    IF HeldIsEmpty(rets, at)
    THEN [rets |-> Del(rets, p), ts |-> DetachAt(ts, rets, p)]
    ELSE [rets |-> rets, ts |-> ts]

\* What follows a call that returned normally: nothing, or the caller's
\* .then(() => saveMetadataIfDirty()), which issues the write of the root.
ThenSave(thenSave, dirty, ts, rets, its) ==
    IF thenSave /\ dirty
    THEN /\ CanSpawnIn(ts)
         /\ \E ok \in BOOLEAN :
              /\ persisted' = IF ok THEN [retainers |-> rets, items |-> its]
                              ELSE persisted
              /\ tasks' = ts \cup
                   {[kind |-> "save", id |-> FreeIdIn(ts), ok |-> ok]}
    ELSE /\ persisted' = persisted
         /\ tasks' = ts

NoChange_never(addedReferences, removedReferences) == FALSE

\* The test for the early return of updateRetainedCaches.
NoChange(addedReferences, removedReferences) ==
    addedReferences = <<>> /\ removedReferences = <<>>

\* From the diff to the first await; srcs are the sources of the requests,
\* ts the operations suspended when the call is made.
UpdateBeginFrom(p, srcs, ts, thenSave) ==
    LET oldCi == IF p \in DOMAIN retainers THEN retainers[p] ELSE <<>>
        newCi == NewCi(Requests(srcs, p), <<>>)
        addedReferences == SelectSeq(newCi, LAMBDA k : ~Includes(oldCi, k))
        removedReferences == SelectSeq(oldCi, LAMBDA k : ~Includes(newCi, k))
        rets1 == Put(retainers, p, newCi)
        counts == retainCount(rets1, items)
        zero == SelectSeq(removedReferences,
                          LAMBDA k : k \in items /\ counts[k] = 0)
        todo == SkipMissing(zero, items)
    IN  /\ EMPTY_CACHE_ROOT' = EMPTY_CACHE_ROOT
        /\ items' = items
        /\ IF NoChange(addedReferences, removedReferences)
           THEN /\ call' = UpdateCall(p, srcs, "nochange", 0)
                /\ UNCHANGED <<retainers, blobs, isMetadataDirty>>
                /\ ThenSave(thenSave, isMetadataDirty, ts, retainers, items)
           ELSE /\ isMetadataDirty' = TRUE
                /\ IF todo = <<>>
                   THEN LET fin == UpdateFinish(rets1, ts, p, p)
                        IN  /\ retainers' = fin.rets
                            /\ blobs' = blobs
                            /\ call' = UpdateCall(p, srcs, "done", 0)
                            /\ ThenSave(thenSave, TRUE, fin.ts, fin.rets, items)
                   ELSE /\ CanSpawnIn(ts)
                        /\ retainers' = rets1
                        /\ persisted' = persisted
                        /\ \E ok \in BOOLEAN :
                             /\ blobs' = IF ok THEN blobs \ {Head(todo)}
                                         ELSE blobs
                             /\ tasks' = ts \cup
                                  {[kind |-> "upd", id |-> FreeIdIn(ts),
                                    path |-> p, at |-> p,
                                    todo |-> todo, ok |-> ok,
                                    thenSave |-> thenSave]}
                        /\ call' = UpdateCall(p, srcs, "running", FreeIdIn(ts))

UpdateBegin(p, srcs) == UpdateBeginFrom(p, srcs, tasks, FALSE)

UpdateResult(t, res) ==
    IF call.op = "update" /\ call.task = t.id
    THEN [call EXCEPT !.res = res, !.task = IF res = "running" THEN @ ELSE 0]
    ELSE Other

\* After adapter.remove settled: delete the metadata entry and go on with
\* the loop, or leave with the error.
UpdateResume(t) ==
    /\ t \in tasks /\ t.kind = "upd"
    /\ UNCHANGED <<isMetadataDirty, EMPTY_CACHE_ROOT>>
    /\ IF ~t.ok
       THEN /\ tasks' = tasks \ {t}
            /\ call' = UpdateResult(t, "failed")
            /\ UNCHANGED <<retainers, items, blobs, persisted>>
       ELSE LET its1 == items \ {Head(t.todo)}
                todo == SkipMissing(Tail(t.todo), its1)
            IN  /\ items' = its1
                /\ IF todo = <<>>
                   THEN LET fin == UpdateFinish(retainers, tasks \ {t},
                                                t.path, t.at)
                        IN  /\ retainers' = fin.rets
                            /\ blobs' = blobs
                            /\ call' = UpdateResult(t, "done")
                            /\ ThenSave(t.thenSave, isMetadataDirty, fin.ts,
                                        fin.rets, its1)
                   ELSE /\ retainers' = retainers
                        /\ persisted' = persisted
                        /\ \E ok \in BOOLEAN :
                             /\ blobs' = IF ok THEN blobs \ {Head(todo)}
                                         ELSE blobs
                             /\ tasks' = (tasks \ {t}) \cup
                                  {[t EXCEPT !.todo = todo, !.ok = ok]}
                        /\ call' = UpdateResult(t, "running")

(***************************************************************************)
(* removeRetainer(path), renameRetainer(oldPath, path)                     *)
(***************************************************************************)
\* The keys whose count reaches 0 in the loop "retainCount[cacheKey]--".
RECURSIVE Released(_, _)
Released(ref, counts) ==
    IF ref = <<>> THEN <<>>
    ELSE LET k == Head(ref)
             c == [counts EXCEPT ![k] = @ - 1]
         IN  IF c[k] = 0 THEN <<k>> \o Released(Tail(ref), c)
             ELSE Released(Tail(ref), c)

RemoveRetainerBegin(p) ==
    /\ call' = Other
    /\ IF p \notin DOMAIN retainers
       THEN UNCHANGED <<storeVars, tasks>>
       ELSE LET retainer == retainers[p]
                counts == retainCount(retainers, Range(retainer))
                todo == SkipMissing(Released(retainer, counts), items)
            IN  /\ UNCHANGED <<items, persisted, EMPTY_CACHE_ROOT>>
                /\ IF todo = <<>>
                   THEN /\ retainers' = Del(retainers, p)
                        /\ tasks' = DetachAt(tasks, retainers, p)
                        /\ isMetadataDirty' = TRUE
                        /\ blobs' = blobs
                   ELSE /\ CanSpawn
                        /\ UNCHANGED <<retainers, isMetadataDirty>>
                        /\ \E ok \in BOOLEAN :
                             /\ blobs' = IF ok THEN blobs \ {Head(todo)}
                                         ELSE blobs
                             /\ tasks' = tasks \cup
                                  {[kind |-> "rr", id |-> FreeIdIn(tasks), path |-> p,
                                    todo |-> todo, ok |-> ok]}

RemoveRetainerResume(t) ==
    /\ t \in tasks /\ t.kind = "rr"
    /\ call' = Other
    /\ UNCHANGED <<persisted, EMPTY_CACHE_ROOT>>
    /\ IF ~t.ok
       THEN \* caught and logged
            /\ tasks' = tasks \ {t}
            /\ UNCHANGED <<retainers, items, blobs, isMetadataDirty>>
       ELSE LET its1 == items \ {Head(t.todo)}
                todo == SkipMissing(Tail(t.todo), its1)
            IN  /\ items' = its1
                /\ IF todo = <<>>
                   THEN /\ retainers' = Del(retainers, t.path)
                        /\ tasks' = DetachAt(tasks \ {t}, retainers, t.path)
                        /\ isMetadataDirty' = TRUE
                        /\ blobs' = blobs
                   ELSE /\ UNCHANGED <<retainers, isMetadataDirty>>
                        /\ \E ok \in BOOLEAN :
                             /\ blobs' = IF ok THEN blobs \ {Head(todo)}
                                         ELSE blobs
                             /\ tasks' = (tasks \ {t}) \cup
                                  {[t EXCEPT !.todo = todo, !.ok = ok]}

renameRetainer(oldPath, path) ==
    /\ call' = Other
    /\ IF oldPath \in DOMAIN retainers
       THEN /\ retainers' = Del(Put(retainers, path, retainers[oldPath]),
                                oldPath)
            /\ tasks' =
                 {IF t.kind = "upd" /\ t.at = oldPath /\ path # oldPath
                  THEN [t EXCEPT !.at = path] ELSE t :
                  t \in DetachAt(tasks, retainers, path)}
            /\ isMetadataDirty' = TRUE
            /\ UNCHANGED <<items, blobs, persisted, EMPTY_CACHE_ROOT>>
       ELSE UNCHANGED <<storeVars, tasks>>

(***************************************************************************)
(* saveMetadataIfDirty, saveMetadata                                       *)
(***************************************************************************)
CurrentRoot == [retainers |-> retainers, items |-> items]

saveMetadataIfDirty ==
    /\ isMetadataDirty
    /\ CanSpawn
    /\ \E ok \in BOOLEAN :
         /\ persisted' = IF ok THEN CurrentRoot ELSE persisted
         /\ tasks' = tasks \cup {[kind |-> "save", id |-> FreeIdIn(tasks), ok |-> ok]}
    /\ UNCHANGED <<retainers, items, blobs, isMetadataDirty,
                   EMPTY_CACHE_ROOT, call>>

\* After adapter.write settled.
SaveResume_clearsFlag(t) ==
    /\ t \in tasks /\ t.kind = "save"
    /\ tasks' = tasks \ {t}
    /\ isMetadataDirty' = FALSE
    /\ UNCHANGED <<retainers, items, blobs, persisted, EMPTY_CACHE_ROOT, call>>

SaveResume(t) ==
    /\ t \in tasks /\ t.kind = "save"
    /\ tasks' = tasks \ {t}
    /\ isMetadataDirty' = IF t.ok THEN FALSE ELSE isMetadataDirty
    /\ UNCHANGED <<retainers, items, blobs, persisted, EMPTY_CACHE_ROOT, call>>


(***************************************************************************)
(* Results and errors of the store.                                        *)
(***************************************************************************)
Statuses == {200, 404, 500}
NetErrors == {"net::ERR_INTERNET_DISCONNECTED", "net::ERR_NAME_NOT_RESOLVED"}

\* What requestUrl can produce: a rejection, or a response with a status,
\* a Cache-Control of "no-store" or not, and a body that is an image or not.
Responses ==
    {[error |-> e, status |-> 0, noStore |-> FALSE, image |-> FALSE] :
        e \in NetErrors}
    \cup {[error |-> "null", status |-> st, noStore |-> ns, image |-> im] :
            st \in Statuses, ns \in BOOLEAN, im \in BOOLEAN}

CacheError == [name |-> "CacheError"]
CacheTypeError == [name |-> "CacheTypeError"]
ExtractError == [name |-> "Error", message |-> "Failed to extract fileInfo"]
ValidationError(v) == [name |-> "Error", message |-> v]
Pending == [name |-> "pending"]

\* error is "null" without a cause, statusCode 0 when there is none.
CacheFetchError(error, statusCode) ==
    [name |-> "CacheFetchError", statusCode |-> statusCode,
     isInternetDisconnected |-> error = "net::ERR_INTERNET_DISCONNECTED",
     isRetryable |->
        IF error # "null" THEN error = "net::ERR_INTERNET_DISCONNECTED"
        ELSE statusCode = 0 \/ (statusCode >= 500 /\ statusCode < 600)]

CacheResult(item, error) == [item |-> item, error |-> error]
GetCacheCall(src, result) ==
    [op |-> "getCache", source |-> src, result |-> result, n |-> 0]

(***************************************************************************)
(* The pass: groups of placeholders, and the download callback.            *)
(***************************************************************************)
\* The object URL that setIcon and loadImages put in the src attribute.
Blob == <<"blob:", "icon">>

\* setLoading, setInvalid, and loadImages followed by setCacheState: the
\* state, and the src attribute now holding an object URL.
SetStates_firstOnly(e, ids, st) ==
    [i \in DOMAIN e |->
        IF ids # <<>> /\ i = Head(ids)
        THEN [e[i] EXCEPT !.state = st, !.attr = Blob]
        ELSE e[i]]

SetStates(e, ids, st) ==
    [i \in DOMAIN e |->
        IF Includes(ids, i) THEN [e[i] EXCEPT !.state = st, !.attr = Blob]
        ELSE e[i]]

\* ProcessingPass.retainCache: requestsToRetain is keyed by the source.
\* ProcessingContext.isCacheAccessReadWrite: the path of the retainer is
\* available.
isCacheAccessReadWrite_always(ps) == TRUE

isCacheAccessReadWrite(ps) == ps.associatedFile # NoFile

retainCache(rtr, request) ==
    IF Includes(rtr, request.source) THEN rtr ELSE Append(rtr, request.source)

\* The callback given to getCache, for a result without an item.
CallbackError(t, g, error) ==
    LET n == pass.numberOfRemainingDownloads - 1
    IN  /\ els' = SetStates(els, pass.groups[g].imageElements, "INVALID")
        /\ pass' = [pass EXCEPT !.numberOfRemainingDownloads = n,
                                !.groups[g].cb = "done",
                                !.groups[g].error = error,
                                !.ends = IF n = 0 THEN @ + 1 ELSE @]
        /\ IF n = 0
           THEN UpdateBeginFrom(PassPath, pass.requestsToRetain,
                                tasks \ {t}, TRUE)
           ELSE /\ tasks' = tasks \ {t}
                /\ call' = Other
                /\ UNCHANGED storeVars

\* The callback for a result with an item, up to "await loadImages".
CallbackItem(t, g) ==
    /\ pass' = [pass EXCEPT !.numberOfRemainingDownloads = @ - 1,
                            !.groups[g].cb = "loading"]
    /\ els' = els
    /\ tasks' = tasks \ {t}
    /\ call' = Other

\* The callback after loadImages settled: the rest of handleRequestGroup,
\* then the test of the number of remaining downloads.
CallbackLoaded(g) ==
    /\ g \in 1..Len(pass.groups)
    /\ pass.groups[g].cb = "loading"
    /\ \E ok \in BOOLEAN :
         LET group == pass.groups[g]
             rtr == IF ok THEN retainCache(pass.requestsToRetain, group.request)
                    ELSE pass.requestsToRetain
             last == pass.numberOfRemainingDownloads = 0
         IN  /\ els' = IF ok THEN SetStates(els, group.imageElements,
                                            "CACHE_SUCCEEDED")
                       ELSE els
             /\ pass' = [pass EXCEPT !.groups[g].cb = "done",
                                     !.groups[g].cacheFileFound = ok,
                                     !.requestsToRetain = rtr,
                                     !.ends = IF last THEN @ + 1 ELSE @]
             /\ IF last
                THEN UpdateBeginFrom(PassPath, rtr, tasks, TRUE)
                ELSE /\ call' = Other
                     /\ UNCHANGED <<storeVars, tasks>>

\* The result of a download reaches its caller: the store's client
\* (cb = 0), or the callback of the group cb of the pass.
DeliverError(t, error) ==
    IF t.cb = 0
    THEN /\ call' = GetCacheCall(t.source, CacheResult(FALSE, error))
         /\ tasks' = tasks \ {t}
         /\ UNCHANGED <<storeVars, passVars>>
    ELSE CallbackError(t, t.cb, error)

DeliverItem(t) ==
    IF t.cb = 0
    THEN /\ call' = GetCacheCall(t.source, CacheResult(TRUE, [name |-> "none"]))
         /\ tasks' = tasks \ {t}
         /\ UNCHANGED passVars
    ELSE CallbackItem(t, t.cb)


(***************************************************************************)
(* getCache(request, force, callback), fetchNewCache, download             *)
(***************************************************************************)
DlTask(id, src, cb, step, ok) ==
    [kind |-> "dl", id |-> id, source |-> src, cb |-> cb, step |-> step,
     ok |-> ok]

\* The store's client calls getCache; its callback records the result.
getCacheOf(src, force) ==
    LET request == createRequest(src, PassPath)
        cacheKey == createCacheKeyFromRequest(request)
        validationError == validateRequest(request)
    IN  /\ UNCHANGED storeVars
        /\ IF validationError # "none"
           THEN /\ call' = GetCacheCall(src,
                     CacheResult(FALSE, ValidationError(validationError)))
                /\ tasks' = tasks
           ELSE IF ~force /\ cacheKey \in items
           THEN \* existingCache awaits adapter.exists
                /\ CanSpawn
                /\ tasks' = tasks \cup
                     {DlTask(FreeIdIn(tasks), src, 0, "exists",
                             cacheKey \in blobs)}
                /\ call' = GetCacheCall(src, CacheResult(FALSE, Pending))
           ELSE IF ~extractFilenameAndExtension(src)
           THEN /\ call' = GetCacheCall(src, CacheResult(FALSE, ExtractError))
                /\ tasks' = tasks
           ELSE /\ CanSpawn
                /\ tasks' = tasks \cup
                     {DlTask(FreeIdIn(tasks), src, 0, "request", TRUE)}
                /\ call' = GetCacheCall(src, CacheResult(FALSE, Pending))

getCache(src, force) == getCacheOf(src, force) /\ UNCHANGED passVars

\* existingCache returned to getCache.
DlExists(t) ==
    /\ t \in tasks /\ t.kind = "dl" /\ t.step = "exists"
    /\ UNCHANGED <<storeVars, passVars>>
    /\ IF t.ok
       THEN /\ call' = GetCacheCall(t.source,
                                    CacheResult(TRUE, [name |-> "none"]))
            /\ tasks' = tasks \ {t}
       ELSE IF ~extractFilenameAndExtension(t.source)
       THEN /\ call' = GetCacheCall(t.source, CacheResult(FALSE, ExtractError))
            /\ tasks' = tasks \ {t}
       ELSE /\ call' = Other
            /\ tasks' = (tasks \ {t}) \cup {[t EXCEPT !.step = "request"]}

ResponseError_none(response) == [name |-> "none"]

\* The error download ends with for a response, or "none".
ResponseError(response) ==
    IF response.error # "null" THEN CacheFetchError(response.error, 0)
    ELSE IF response.noStore THEN CacheError
    ELSE IF response.status >= 400 THEN CacheFetchError("null", response.status)
    ELSE IF ~response.image THEN CacheTypeError
    ELSE [name |-> "none"]

\* requestUrl settled: the checks of the response, then writeBinary.
DlResponse(t, response) ==
    /\ t \in tasks /\ t.kind = "dl" /\ t.step = "request"
    /\ LET error == ResponseError(response)
           cacheKey == createCacheKeyFromOriginalSrc(t.source)
       IN  IF error.name # "none"
           THEN DeliverError(t, error)
           ELSE /\ \E ok \in BOOLEAN, created \in BOOLEAN :
                     /\ ok => created
                     /\ blobs' = IF created THEN blobs \cup {cacheKey}
                                 ELSE blobs
                     /\ tasks' = (tasks \ {t}) \cup
                          {[t EXCEPT !.step = "written", !.ok = ok]}
                /\ call' = Other
                /\ UNCHANGED <<retainers, items, isMetadataDirty, persisted,
                               EMPTY_CACHE_ROOT, passVars>>

\* writeBinary settled: add the metadata and save it, or remove the file.
DlWritten(t) ==
    /\ t \in tasks /\ t.kind = "dl" /\ t.step = "written"
    /\ LET cacheKey == createCacheKeyFromOriginalSrc(t.source)
       IN  /\ call' = Other
           /\ UNCHANGED <<retainers, isMetadataDirty, EMPTY_CACHE_ROOT,
                          passVars>>
           /\ IF t.ok
              THEN /\ items' = items \cup {cacheKey}
                   /\ blobs' = blobs
                   /\ \E ok \in BOOLEAN :
                        /\ persisted' =
                             IF ok THEN [retainers |-> retainers,
                                         items |-> items \cup {cacheKey}]
                             ELSE persisted
                        /\ tasks' = (tasks \ {t}) \cup
                             {[t EXCEPT !.step = "saved", !.ok = ok]}
              ELSE /\ UNCHANGED <<items, persisted>>
                   /\ \E ok \in BOOLEAN :
                        /\ blobs' = IF ok THEN blobs \ {cacheKey} ELSE blobs
                        /\ tasks' = (tasks \ {t}) \cup
                             {[t EXCEPT !.step = "rollback", !.ok = ok]}

\* saveMetadata settled: the result, or the rollback of the entry.
DlSaved(t) ==
    /\ t \in tasks /\ t.kind = "dl" /\ t.step = "saved"
    /\ LET cacheKey == createCacheKeyFromOriginalSrc(t.source)
       IN  /\ UNCHANGED <<retainers, persisted, EMPTY_CACHE_ROOT>>
           /\ IF t.ok
              THEN /\ isMetadataDirty' = FALSE
                   /\ UNCHANGED <<items, blobs>>
                   /\ DeliverItem(t)
              ELSE /\ items' = items \ {cacheKey}
                   /\ isMetadataDirty' = isMetadataDirty
                   /\ call' = Other
                   /\ UNCHANGED passVars
                   /\ \E ok \in BOOLEAN :
                        /\ blobs' = IF ok THEN blobs \ {cacheKey} ELSE blobs
                        /\ tasks' = (tasks \ {t}) \cup
                             {[t EXCEPT !.step = "rollback", !.ok = ok]}

\* adapter.remove of the rollback settled: the write or save error is
\* rethrown and wrapped.
DlRolledBack(t) ==
    /\ t \in tasks /\ t.kind = "dl" /\ t.step = "rollback"
    /\ DeliverError(t, CacheFetchError("other", 0))


(***************************************************************************)
(* clearCached, resetMetadata                                              *)
(***************************************************************************)
\* The files adapter.list returns, in the order of the listing.
Listing(files) == SelectSeq(<<K1, K2>>, LAMBDA k : k \in files)

clearCachedBegin ==
    /\ CanSpawn
    /\ tasks' = tasks \cup
         {[kind |-> "clr", id |-> FreeIdIn(tasks), step |-> "sleep",
           todo |-> <<>>, ok |-> TRUE]}
    /\ call' = Other
    /\ UNCHANGED storeVars

clearCached == clearCachedBegin /\ UNCHANGED passVars

\* resetMetadata up to the await in saveMetadata:
\* this.metadataRoot = Object.assign({}, EMPTY_CACHE_ROOT) copies the two
\* references, so the root's maps are the shared constant's maps afterwards.
ResetThenSave(t) ==
    LET root == IF EMPTY_CACHE_ROOT = Aliased THEN CurrentRoot
                ELSE EMPTY_CACHE_ROOT
    IN  /\ retainers' = root.retainers
        /\ items' = root.items
        /\ EMPTY_CACHE_ROOT' = Aliased
        /\ \E ok \in BOOLEAN :
             /\ persisted' = IF ok THEN root ELSE persisted
             /\ tasks' =
                  {IF /\ EMPTY_CACHE_ROOT # Aliased
                      /\ u.kind = "upd" /\ u.at \in DOMAIN retainers
                   THEN [u EXCEPT !.at = Detached(retainers, u.at)] ELSE u :
                   u \in (tasks \ {t}) \cup
                         {[t EXCEPT !.step = "save", !.todo = <<>>,
                                    !.ok = ok]}}

\* The loop over the listed files, then resetMetadata.
ClearLoop(t, todo) ==
    IF todo = <<>>
    THEN /\ ResetThenSave(t)
         /\ UNCHANGED <<blobs, isMetadataDirty>>
    ELSE /\ \E ok \in BOOLEAN :
              /\ blobs' = IF ok THEN blobs \ {Head(todo)} ELSE blobs
              /\ tasks' = (tasks \ {t}) \cup
                   {[t EXCEPT !.step = "remove", !.todo = todo, !.ok = ok]}
         /\ UNCHANGED <<retainers, items, isMetadataDirty, persisted,
                        EMPTY_CACHE_ROOT>>

clearCachedResume(t) ==
    /\ t \in tasks /\ t.kind = "clr"
    /\ call' = Other
    /\ IF t.step = "sleep"
       THEN \* cancelAllOngoing returned: adapter.list
            /\ \E ok \in BOOLEAN :
                 tasks' = (tasks \ {t}) \cup
                    {[t EXCEPT !.step = "list", !.todo = Listing(blobs),
                               !.ok = ok]}
            /\ UNCHANGED storeVars
       ELSE IF ~t.ok
       THEN \* callback(error)
            /\ tasks' = tasks \ {t}
            /\ UNCHANGED storeVars
       ELSE IF t.step = "list" THEN ClearLoop(t, t.todo)
       ELSE IF t.step = "remove" THEN ClearLoop(t, Tail(t.todo))
       ELSE \* saveMetadata wrote the file: callback()
            /\ tasks' = tasks \ {t}
            /\ isMetadataDirty' = FALSE
            /\ UNCHANGED <<retainers, items, blobs, persisted,
                           EMPTY_CACHE_ROOT>>

ClearResume(t) == clearCachedResume(t) /\ UNCHANGED passVars


(***************************************************************************)
(* The store and its clients.                                              *)
(***************************************************************************)
(***************************************************************************)
(* ComeDownPlugin.requestCache(imageElements, pass)                        *)
(***************************************************************************)
NumEls == 3
ElSources == {S1, S1p, S2, LocalSrc, EmptySrc}
ElStates == {"ORIGINAL_SRC_REMOVED", "CACHE_FAILED", "CACHE_SUCCEEDED"}

groupKey_bySource(src) == [h64 |-> src]

\* The key groupRequests files a group under.
groupKey(src) == createCacheKeyFromOriginalSrc(src)

\* groupedByRequest[key]: the index of the group, 0 when there is none.
FindGroup(groups, key) ==
    IF \E i \in 1..Len(groups) : groupKey(groups[i].request.source) = key
    THEN CHOOSE i \in 1..Len(groups) :
            groupKey(groups[i].request.source) = key
    ELSE 0

NewGroup(request, i) ==
    [request |-> request, imageElements |-> <<i>>, cacheFileFound |-> FALSE,
     lookups |-> 0, downloads |-> 0, cb |-> "none",
     error |-> [name |-> "none"]]

\* groupRequests: acc holds the groups so far and the elements' states.
RECURSIVE groupRequests(_, _)
groupRequests(imageElements, acc) ==
    IF imageElements = <<>> THEN acc
    ELSE LET i == Head(imageElements)
             e == [acc.els EXCEPT ![i].state = "REQUESTING"]
             src == e[i].src
             key == groupKey(src)
             g == FindGroup(acc.groups, key)
             request == createRequest(src, PassPath)
             step ==
                IF src = EmptySrc
                THEN [groups |-> acc.groups,
                      els |-> [e EXCEPT ![i].state = "INVALID",
                                        ![i].attr = Blob]]
                ELSE IF g # 0
                THEN [groups |-> [acc.groups EXCEPT ![g].imageElements =
                                                        Append(@, i)],
                      els |-> e]
                ELSE IF validateRequest(request) # "none"
                THEN [groups |-> acc.groups,
                      els |-> [e EXCEPT ![i].state = "INVALID",
                                        ![i].attr = Blob]]
                ELSE [groups |-> Append(acc.groups, NewGroup(request, i)),
                      els |-> e]
         IN  groupRequests(Tail(imageElements), step)

\* The loop over the groups with existingCache(request, true), up to the
\* first group whose metadata is found (loadImages is awaited for it).
RECURSIVE LookupLoop(_, _)
LookupLoop(groups, i) ==
    IF i > Len(groups) THEN [groups |-> groups, cur |-> i]
    ELSE LET gs == [groups EXCEPT ![i].lookups = @ + 1]
         IN  IF createCacheKeyFromRequest(groups[i].request) \in items
             THEN [groups |-> gs, cur |-> i]
             ELSE LookupLoop(gs, i + 1)

RECURSIVE SpawnDownloads(_, _, _)
SpawnDownloads(ts, groups, i) ==
    IF i > Len(groups) THEN ts
    ELSE IF groups[i].cacheFileFound THEN SpawnDownloads(ts, groups, i + 1)
    ELSE SpawnDownloads(
            ts \cup {DlTask(FreeIdIn(ts), groups[i].request.source, i,
                            "request", TRUE)},
            groups, i + 1)

RECURSIVE ElementsOf(_, _)
ElementsOf(groups, i) ==
    IF i > Len(groups) THEN <<>>
    ELSE (IF groups[i].cacheFileFound THEN <<>> ELSE groups[i].imageElements)
         \o ElementsOf(groups, i + 1)

\* requestCache after the loop over the groups: the pass ends, or a
\* download is started for every group that was not found.
AfterLookups(ps, e) ==
    LET remainingRequestGroups ==
            {i \in 1..Len(ps.groups) : ~ps.groups[i].cacheFileFound}
        n == Cardinality(remainingRequestGroups)
    IN  IF n = 0
        THEN /\ pass' = [ps EXCEPT !.pc = "returned", !.ends = @ + 1]
             /\ els' = e
             /\ IF isCacheAccessReadWrite(ps)
                THEN UpdateBeginFrom(PassPath, ps.requestsToRetain, tasks,
                                     TRUE)
                ELSE /\ call' = Other
                     /\ UNCHANGED <<storeVars, tasks>>
        ELSE IF ~isCacheAccessReadWrite(ps)
        THEN /\ pass' = [ps EXCEPT !.pc = "returned"]
             /\ els' = SetStates(e, ElementsOf(ps.groups, 1), "CACHE_FAILED")
             /\ call' = Other
             /\ UNCHANGED <<storeVars, tasks>>
        ELSE /\ Cardinality(tasks) + n <= MaxDownloads
             /\ pass' = [ps EXCEPT
                   !.pc = "returned",
                   !.numberOfRemainingDownloads = n,
                   !.groups = [i \in 1..Len(ps.groups) |->
                       IF i \in remainingRequestGroups
                       THEN [ps.groups[i] EXCEPT !.downloads = @ + 1]
                       ELSE ps.groups[i]]]
             /\ els' = SetStates(e, ElementsOf(ps.groups, 1),
                                 "REQUESTING_DOWNLOADING")
             /\ tasks' = SpawnDownloads(tasks, ps.groups, 1)
             /\ call' = Other
             /\ UNCHANGED storeVars

\* Runs the loop from group i on.
Lookups(ps, e, i) ==
    LET loop == LookupLoop(ps.groups, i)
        ps1 == [ps EXCEPT !.groups = loop.groups, !.cur = loop.cur]
    IN  IF loop.cur <= Len(ps.groups)
        THEN /\ pass' = [ps1 EXCEPT !.pc = "loading"]
             /\ els' = e
             /\ call' = Other
             /\ UNCHANGED <<storeVars, tasks>>
        ELSE AfterLookups(ps1, e)

\* requestCache up to its first await.
requestCache ==
    /\ pass.pc = "idle"
    /\ LET imageElements ==
              SelectSeq([i \in 1..Len(els) |-> i],
                        LAMBDA i : els[i].state \in {"ORIGINAL_SRC_REMOVED",
                                                     "CACHE_FAILED"})
       IN  pass' = [pass EXCEPT
                      !.pc = IF imageElements = <<>> THEN "returned"
                             ELSE "stat",
                      !.imageElements = imageElements]
    /\ call' = Other
    /\ UNCHANGED <<storeVars, tasks, els>>

\* After the check of the metadata file: groupRequests and the lookups.
RequestCacheGroup ==
    /\ pass.pc = "stat"
    /\ LET grouped == groupRequests(pass.imageElements,
                                    [groups |-> <<>>, els |-> els])
       IN  Lookups([pass EXCEPT !.groups = grouped.groups], grouped.els, 1)

\* loadImages settled for the group found in the cache: the rest of
\* handleRequestGroup, then the loop goes on.
RequestCacheLoaded ==
    /\ pass.pc = "loading"
    /\ \E ok \in BOOLEAN :
         LET g == pass.cur
             group == pass.groups[g]
             ps == [pass EXCEPT
                      !.groups[g].cacheFileFound = ok,
                      !.requestsToRetain =
                          IF ok /\ isCacheAccessReadWrite(pass)
                          THEN retainCache(@, group.request) ELSE @]
             e == IF ok THEN SetStates(els, group.imageElements,
                                       "CACHE_SUCCEEDED")
                  ELSE els
         IN  Lookups(ps, e, g + 1)

PassInit ==
    /\ \E root \in InitRoots :
         /\ retainers = root.retainers
         /\ items = root.items
         /\ blobs = root.items
         /\ persisted = root
    /\ EMPTY_CACHE_ROOT = EmptyRoot
    /\ isMetadataDirty = FALSE
    /\ tasks = {}
    /\ call = Other
    /\ els \in [1..NumEls -> [src : ElSources, state : ElStates,
                              attr : {Blob}]]
    /\ pass = IdlePass

PassNext ==
    \/ requestCache
    \/ RequestCacheGroup
    \/ RequestCacheLoaded
    \/ \E t \in tasks, response \in Responses : DlResponse(t, response)
    \/ \E t \in tasks : DlWritten(t)
    \/ \E t \in tasks : DlSaved(t)
    \/ \E t \in tasks : DlRolledBack(t)
    \/ \E g \in 1..NumEls : CallbackLoaded(g)
    \/ \E t \in tasks : UpdateResume(t) /\ UNCHANGED passVars
    \/ \E t \in tasks : SaveResume(t) /\ UNCHANGED passVars

PassSpec == PassInit /\ [][PassNext]_vars

\* One pass in which every call that was started returns: the lookups, the
\* image loads, the responses of the network and the writes of the store
\* each take their step while one is pending (the placeholders are in
\* REQUESTING only after groupRequests ran, so the steps before it need no
\* fairness).  The placeholders hold at most MaxDownloads different keys.
LiveInit ==
    /\ PassInit
    /\ \A i \in DOMAIN els : /\ els[i].src \in {S1, S2}
                              /\ els[i].state = "ORIGINAL_SRC_REMOVED"

\* The steps of a pass that follow a call that returned, after the
\* placeholders were grouped.
PassReturns ==
    \/ RequestCacheLoaded
    \/ \E t \in tasks, response \in Responses : DlResponse(t, response)
    \/ \E t \in tasks : DlWritten(t)
    \/ \E t \in tasks : DlSaved(t)
    \/ \E t \in tasks : DlRolledBack(t)
    \/ \E g \in 1..NumEls : CallbackLoaded(g)
    \/ \E t \in tasks : UpdateResume(t) /\ UNCHANGED passVars
    \/ \E t \in tasks : SaveResume(t) /\ UNCHANGED passVars

LiveSpec == LiveInit /\ [][PassNext]_vars /\ WF_vars(PassReturns)

\* C34: every placeholder a pass moved to REQUESTING (or on to
\* REQUESTING_DOWNLOADING) eventually reaches CACHE_SUCCEEDED, CACHE_FAILED
\* or INVALID when every call of the pass returns.
C34_RequestedReachesOutcome ==
    \A i \in 1..NumEls :
        (els[i].state \in {"REQUESTING", "REQUESTING_DOWNLOADING"})
            ~> (els[i].state \in {"CACHE_SUCCEEDED", "CACHE_FAILED",
                                  "INVALID"})

\* C36: a pass calls end at most once, in whatever order the download
\* callbacks of its groups and their image loads complete.
C36_EndAtMostOnce == pass.ends <= 1

\* One pass in a vault whose store is empty: every image is downloaded, and
\* the end of the pass has nothing to release.
FreshInit ==
    /\ LiveInit
    /\ items = {}

FreshNext ==
    \/ requestCache
    \/ RequestCacheGroup
    \/ \E t \in tasks, response \in Responses : DlResponse(t, response)
    \/ \E t \in tasks : DlWritten(t)
    \/ \E t \in tasks : DlSaved(t)
    \/ \E t \in tasks : DlRolledBack(t)
    \/ \E g \in 1..NumEls : CallbackLoaded(g)
    \/ \E t \in tasks : SaveResume(t) /\ UNCHANGED passVars

FreshSpec == FreshInit /\ [][FreshNext]_vars

\* C37: whenever no pass, download, release or save is in progress, every
\* key of items is in the refs of at least one retainer.
C37_NoEntryWithoutRetainer ==
    (/\ tasks = {}
     /\ pass.pc \in {"idle", "returned"}
     /\ \A g \in DOMAIN pass.groups : pass.groups[g].cb # "loading")
    => \A k \in items :
          \E p \in DOMAIN retainers : Includes(retainers[p], k)

(***************************************************************************)
(* ProcessingPass.enqueue: serialQueue = serialQueue.then(() => operation()).*)
(* serialQueue[i] is the promise the i-th call returned: "waiting" until    *)
(* the promise before it settled, "running" while its operation runs,       *)
(* "fulfilled" or "rejected" as the operation settled, and "skipped" when   *)
(* the promise before it rejected: then() was given no rejection handler,   *)
(* so the promise rejects without the operation being called.               *)
(***************************************************************************)
Started == {"running", "fulfilled", "rejected"}

\* The state of the promise enqueue chains the i-th operation to; the first
\* one is Promise.resolve().
Previous(q, i) == IF i = 1 THEN "fulfilled" ELSE q[i - 1].st

\* The two callers: the view update listener and the post-processor.
enqueue(operation) ==
    /\ Len(pass.serialQueue) < MaxOps
    /\ pass' = [pass EXCEPT !.serialQueue =
                   Append(@, [operation |-> operation, st |-> "waiting"])]
    /\ UNCHANGED <<storeVars, tasks, call, els>>

\* The reaction of then() to the promise before it.
OperationStart(i) ==
    /\ i \in 1..Len(pass.serialQueue)
    /\ pass.serialQueue[i].st = "waiting"
    /\ Previous(pass.serialQueue, i) \in {"fulfilled", "rejected", "skipped"}
    /\ pass' = [pass EXCEPT !.serialQueue[i].st =
                   IF Previous(pass.serialQueue, i) = "fulfilled"
                   THEN "running" ELSE "skipped"]
    /\ UNCHANGED <<storeVars, tasks, call, els>>

\* The promise of the operation settles.
OperationSettle(i, ok) ==
    /\ i \in 1..Len(pass.serialQueue)
    /\ pass.serialQueue[i].st = "running"
    /\ pass' = [pass EXCEPT !.serialQueue[i].st =
                   IF ok THEN "fulfilled" ELSE "rejected"]
    /\ UNCHANGED <<storeVars, tasks, call, els>>

SerialNext ==
    \/ \E operation \in {"viewUpdate", "postProcessor"} : enqueue(operation)
    \/ \E i \in 1..MaxOps : OperationStart(i)
    \/ \E i \in 1..MaxOps, ok \in BOOLEAN : OperationSettle(i, ok)

\* Every reaction of a promise runs, and every operation settles.
SerialSpec ==
    /\ Init
    /\ [][SerialNext]_vars
    /\ WF_vars(\E i \in 1..MaxOps : OperationStart(i))
    /\ WF_vars(\E i \in 1..MaxOps, ok \in BOOLEAN : OperationSettle(i, ok))

\* C39: every operation handed to enqueue is eventually started, also when
\* an operation before it rejected.
C39_EveryOperationStarts ==
    \A i \in 1..MaxOps :
        (Len(pass.serialQueue) >= i)
            ~> (Len(pass.serialQueue) >= i /\ pass.serialQueue[i].st \in Started)

\* A pass whose context found no file for the rendered content: the cache
\* is read, never written.
ReadOnlyInit ==
    /\ \E root \in InitRoots :
         /\ retainers = root.retainers
         /\ items = root.items
         /\ blobs = root.items
         /\ persisted = root
    /\ EMPTY_CACHE_ROOT = EmptyRoot
    /\ isMetadataDirty = FALSE
    /\ tasks = {}
    /\ call = Other
    /\ els \in [1..NumEls -> [src : ElSources, state : ElStates,
                              attr : {Blob}]]
    /\ pass = [IdlePass EXCEPT !.associatedFile = NoFile]

ReadOnlyNext ==
    \/ requestCache
    \/ RequestCacheGroup
    \/ RequestCacheLoaded

ReadOnlySpec == ReadOnlyInit /\ [][ReadOnlyNext]_vars

Next ==
    \/ \E p \in Paths, srcs \in RequestLists :
         UpdateBegin(p, srcs) /\ UNCHANGED passVars
    \/ \E t \in tasks : UpdateResume(t) /\ UNCHANGED passVars
    \/ \E p \in Paths : RemoveRetainerBegin(p) /\ UNCHANGED passVars
    \/ \E t \in tasks : RemoveRetainerResume(t) /\ UNCHANGED passVars
    \/ \E p \in Paths, q \in Paths : renameRetainer(p, q) /\ UNCHANGED passVars

Spec == Init /\ [][Next]_vars

\* Downloads and clearing the cache, next to the releases of one note.
CacheNext ==
    \/ \E src \in {S1, NoFileSrc} \cup InvalidSources, force \in BOOLEAN :
         getCache(src, force)
    \/ \E t \in tasks : DlExists(t)
    \/ \E t \in tasks, response \in Responses : DlResponse(t, response)
    \/ \E t \in tasks : DlWritten(t)
    \/ \E t \in tasks : DlSaved(t)
    \/ \E t \in tasks : DlRolledBack(t)
    \/ clearCached
    \/ \E t \in tasks : ClearResume(t)
    \/ \E srcs \in {<<>>, <<S1>>, <<S2>>} :
         UpdateBegin(PassPath, srcs) /\ UNCHANGED passVars
    \/ \E t \in tasks : UpdateResume(t) /\ UNCHANGED passVars
    \/ RemoveRetainerBegin(PassPath) /\ UNCHANGED passVars
    \/ \E t \in tasks : RemoveRetainerResume(t) /\ UNCHANGED passVars

CacheSpec == Init /\ [][CacheNext]_vars

\* ProcessingPass.end of the passes of the notes: the update of the
\* retained caches, then saveMetadataIfDirty.
end(p, srcs) == UpdateBeginFrom(p, srcs, tasks, TRUE)

EndLists == {<<>>, <<S1>>, <<S2>>, <<S1, S2>>}

EndNext ==
    \/ \E p \in Paths, srcs \in EndLists : end(p, srcs) /\ UNCHANGED passVars
    \/ \E t \in tasks : UpdateResume(t) /\ UNCHANGED passVars
    \/ saveMetadataIfDirty /\ UNCHANGED passVars
    \/ \E t \in tasks : SaveResume(t) /\ UNCHANGED passVars

EndSpec == Init /\ [][EndNext]_vars

(***************************************************************************)
(* editorViewUpdateListener and the serial queue of the passes.            *)
(* The view shows the whole note in live preview, and no edit makes an     *)
(* empty embed.                                                            *)
(***************************************************************************)
\* Url.normalizeUrl: the trimmed text; null is the empty sequence.
normalizeUrl(url) == Trim(url)

getSrc(el) == normalizeUrl(el.attr)

\* Logic.isValidExternalUrl
isValidExternalUrl(src) ==
    /\ src # <<>>
    /\ Trim(src) # <<>>
    /\ ParseUrl(Trim(src)).ok
    /\ isExternal(Trim(src))

filterIrrelevantCacheStates(el) ==
    el.state \notin {"REQUESTING", "REQUESTING_DOWNLOADING",
                     "CACHE_SUCCEEDED", "INVALID"}

\* HtmlAssistant.resetElement: both data attributes are deleted.
resetElement(el) == [el EXCEPT !.src = <<>>, !.state = "ORIGINAL"]

checkIfUrlChanged_noReset(docChanged, el) == el

checkIfUrlChanged(docChanged, el) ==
    IF /\ docChanged
       /\ el.state # "ORIGINAL"
       /\ isValidExternalUrl(getSrc(el))
    THEN resetElement(el)
    ELSE el

\* The filter of findRelevantImagesToProcessViewUpdate.
imagesToCancelFilter(el) ==
    LET src == getSrc(el)
    IN  IF src = <<>> THEN filterIrrelevantCacheStates(el)
        ELSE IF ~isValidExternalUrl(src) THEN FALSE
        ELSE filterIrrelevantCacheStates(el)

\* els after the checks for changed URLs, the indices of the elements to
\* cancel or process, and the indices of the remaining elements.
findRelevantImagesToProcessViewUpdate(docChanged, e) ==
    LET e1 == [i \in DOMAIN e |-> checkIfUrlChanged(docChanged, e[i])]
        all == [i \in 1..Len(e) |-> i]
    IN  [els |-> e1,
         imagesToCancel
         |-> SelectSeq(all, LAMBDA i : imagesToCancelFilter(e1[i])),
         remainingElements
         |-> SelectSeq(all, LAMBDA i : ~imagesToCancelFilter(e1[i]))]

\* HtmlAssistant.cancelImageLoading: the src attribute is kept in the data
\* attribute and replaced by the empty icon.
cancelImageLoading(e, imageElements) ==
    [i \in DOMAIN e |->
        IF /\ Includes(imageElements, i)
           /\ getSrc(e[i]) # <<>>
           /\ e[i].state # "ORIGINAL_SRC_REMOVED"
        THEN [src |-> getSrc(e[i]), state |-> "ORIGINAL_SRC_REMOVED",
              attr |-> Blob]
        ELSE e[i]]

canAbortViewUpdate_never(elements, docChanged) == FALSE

canAbortViewUpdate(elements, docChanged) == elements = <<>> /\ ~docChanged

\* The edits of the user: none (0), or the locator of placeholder
\* edit[1] becomes edit[2].
Edits == {<<>>} \cup ((1..NumQueueEls) \X {S1, S2})

\* editorViewUpdateListener up to pass.enqueue.  CodeMirror has put the
\* edited locator in the src attribute of the placeholder before it calls
\* the listener.  p0 is the pass and view data the listener starts from;
\* the pass notes when it aborts.
\* Workarounds.HandleInvalidImageElements, called by the filter for an
\* element with a valid external src: an element whose src is one of the
\* sources to ignore loses its src attribute and becomes INVALID.
HandleInvalidImageElements(sourcesToIgnore, el) ==
    IF isValidExternalUrl(getSrc(el)) /\ getSrc(el) \in sourcesToIgnore
    THEN [el EXCEPT !.state = "INVALID", !.attr = <<>>]
    ELSE el

\* sourcesToIgnore are the links detectSourcesOfInvalidImageElements finds
\* behind an empty embed in the changes of the update; none without
\* changes.
editorViewUpdateListenerFrom(p0, docChanged, edit, sourcesToIgnore) ==
    /\ pass.vu = "none"
    /\ sourcesToIgnore # {} => docChanged
    /\ edit # <<>> => /\ docChanged
                      /\ els[edit[1]].attr # edit[2]
                      /\ pass.edits < MaxEdits
    /\ LET e0 == IF edit = <<>> THEN els
                 ELSE [els EXCEPT ![edit[1]].attr = edit[2]]
           found == findRelevantImagesToProcessViewUpdate(docChanged,
                       [i \in DOMAIN e0 |->
                           HandleInvalidImageElements(sourcesToIgnore,
                              checkIfUrlChanged(docChanged, e0[i]))])
           imagesToCancel == found.imagesToCancel
       IN  /\ els' = cancelImageLoading(found.els, imagesToCancel)
           /\ pass' = [p0 EXCEPT
                 !.abort = IF canAbortViewUpdate(imagesToCancel, docChanged)
                           THEN "listener" ELSE "none",
                 !.vu = IF canAbortViewUpdate(imagesToCancel, docChanged)
                        THEN "none"
                        ELSE IF docChanged THEN "changed" ELSE "unchanged",
                 !.edited = IF edit = <<>> THEN @
                            ELSE [el |-> edit[1], from |-> els[edit[1]].src,
                                  to |-> edit[2],
                                  state |-> els[edit[1]].state,
                                  retained |->
                                     /\ PassPath \in DOMAIN retainers
                                     /\ Includes(retainers[PassPath],
                                           createCacheKeyFromOriginalSrc(
                                              els[edit[1]].src)),
                                  cached |->
                                     createCacheKeyFromOriginalSrc(
                                        els[edit[1]].src) \in items],
                 !.edits = IF edit = <<>> THEN @ ELSE @ + 1]
    /\ call' = Other
    /\ UNCHANGED <<storeVars, tasks>>

editorViewUpdateListener(docChanged, edit) ==
    editorViewUpdateListenerFrom(pass, docChanged, edit, {})

\* ProcessingPass.abortIfInvalidContext: whether the listener aborts, and
\* the path recorded for the view after it.  seqNum is 0 at the first
\* update of a fresh view plugin.
abortIfInvalidContext(associatedFilePath, viewFilePath, seqNum) ==
    [abort |-> viewFilePath # associatedFilePath /\ seqNum # 0,
     requesterPath |-> IF viewFilePath # associatedFilePath /\ seqNum = 0
                       THEN associatedFilePath
                       ELSE viewFilePath]

\* The listener that first tests its context.  Of the pass of a note
\* other than PassPath only the recorded path is followed.
editorViewUpdateListenerInContext(associatedFilePath, seqNum, docChanged) ==
    LET r == abortIfInvalidContext(associatedFilePath, pass.requesterPath,
                                   seqNum)
        p0 == [pass EXCEPT !.requesterPath = r.requesterPath]
    IN  IF r.abort
        THEN /\ pass' = [pass EXCEPT !.abort = "context"]
             /\ els' = els
             /\ call' = Other
             /\ UNCHANGED <<storeVars, tasks>>
        ELSE IF associatedFilePath # PassPath
        THEN /\ pass' = [p0 EXCEPT !.abort = "none"]
             /\ els' = els
             /\ call' = Other
             /\ UNCHANGED <<storeVars, tasks>>
        ELSE editorViewUpdateListenerFrom(p0, docChanged, <<>>, {})

\* ProcessingPass.handleRequestingAndSucceeded: the sources of the loaded
\* placeholders are retained; ignoreCache fills requestsToIgnore, which
\* updateRetainedCaches does not take.
RECURSIVE handleRequestingAndSucceeded(_, _, _)
handleRequestingAndSucceeded(e, imageElements, rtr) ==
    IF imageElements = <<>> THEN rtr
    ELSE LET el == e[Head(imageElements)]
         IN  handleRequestingAndSucceeded(e, Tail(imageElements),
                IF el.state = "CACHE_SUCCEEDED" /\ el.src # <<>>
                THEN retainCache(rtr, createRequest(el.src, PassPath))
                ELSE rtr)

\* CodeMirrorAssistant.findImagesOutsideViewport with the filter
\* isValidExternalUrl: null when ensureSyntaxTree gives no tree within
\* the timeout.
findImagesOutsideViewport(doc) ==
    IF doc.parsed
    THEN [null |-> FALSE,
          images |-> SelectSeq(doc.outside, isValidExternalUrl)]
    ELSE [null |-> TRUE, images |-> <<>>]

RECURSIVE RetainAll(_, _)
RetainAll(rtr, images) ==
    IF images = <<>> THEN rtr
    ELSE RetainAll(IF isValidExternalUrl(Head(images))
                   THEN retainCache(rtr, createRequest(Head(images), PassPath))
                   ELSE rtr,
                   Tail(images))

\* ProcessingPass.handleImagesNotInCurrentDOM
handleImagesNotInCurrentDOM(rtr, doc) ==
    LET imagesOutsideViewport == findImagesOutsideViewport(doc)
    IN  IF imagesOutsideViewport.null THEN rtr
        ELSE RetainAll(rtr, imagesOutsideViewport.images)

\* The served continuation of the queued view-update pass: it runs when
\* the promise of the continuation before it has settled.  doc is the
\* part of the note outside the viewport.
ViewUpdateContinuationOf(doc) ==
    /\ pass.vu # "none"
    /\ pass.pc \in {"idle", "returned"}
    /\ LET docChanged == pass.vu = "changed"
           found == findRelevantImagesToProcessViewUpdate(docChanged, els)
           imagesToProcess == found.imagesToCancel
           rtr == handleImagesNotInCurrentDOM(
                     handleRequestingAndSucceeded(found.els,
                        found.remainingElements, <<>>), doc)
           selected == SelectSeq(imagesToProcess, LAMBDA i :
                          found.els[i].state \in {"ORIGINAL_SRC_REMOVED",
                                                  "CACHE_FAILED"})
       IN  /\ els' = found.els
           /\ IF canAbortViewUpdate(imagesToProcess, docChanged)
              THEN /\ pass' = [pass EXCEPT !.vu = "none", !.abort = "queue"]
                   /\ call' = Other
                   /\ UNCHANGED <<storeVars, tasks>>
              ELSE IF imagesToProcess = <<>>
              THEN /\ pass' = [pass EXCEPT !.vu = "none", !.doc = doc]
                   /\ UpdateBeginFrom(PassPath, rtr, tasks, TRUE)
              ELSE \* requestCache, which returns when its filter leaves
                   \* no element; else this pass is the one that goes on
                   \* in requestCache
                   /\ selected # <<>> => pass.pc = "idle"
                   /\ pass' = [pass EXCEPT
                         !.vu = "none",
                         !.pc = IF selected = <<>> THEN @ ELSE "stat",
                         !.imageElements = selected,
                         !.requestsToRetain = rtr,
                         !.doc = doc]
                   /\ call' = Other
                   /\ UNCHANGED <<storeVars, tasks>>

\* The pass of a note that the view shows whole.
ViewUpdateContinuation == ViewUpdateContinuationOf(NoDoc)

\* The placeholders of the note: untouched ones, and ones the earlier
\* passes have processed.
QueueEls ==
    {[src |-> <<>>, state |-> "ORIGINAL", attr |-> u] : u \in {S1, S2}}
    \cup
    {[src |-> u, state |-> st, attr |-> Blob] :
        u \in {S1, S2},
        st \in {"ORIGINAL_SRC_REMOVED", "CACHE_SUCCEEDED", "CACHE_FAILED"}}

\* The responses to the downloads of these passes: the image, or 404.
QueueResponses ==
    {r \in Responses : r.error = "null" /\ ~r.noStore /\ r.image
                       /\ r.status \in {200, 404}}

QueueInit ==
    /\ \E root \in InitRoots :
         /\ retainers = root.retainers
         /\ items = root.items
         /\ blobs = root.items
         /\ persisted = root
    /\ EMPTY_CACHE_ROOT = EmptyRoot
    /\ isMetadataDirty = FALSE
    /\ tasks = {}
    /\ call = Other
    /\ els \in [1..NumQueueEls -> QueueEls]
    /\ pass = IdlePass

\* The passes of one note: a post-processor pass running requestCache and
\* the view-update passes queued behind it; next to them the handler of
\* the vault's delete event.
QueueNext ==
    \/ \E docChanged \in BOOLEAN : editorViewUpdateListener(docChanged, <<>>)
    \/ ViewUpdateContinuation
    \/ requestCache
    \/ RequestCacheGroup
    \/ RequestCacheLoaded
    \/ \E t \in tasks, response \in QueueResponses :
         DlResponse(t, response)
    \/ \E t \in tasks : DlWritten(t)
    \/ \E t \in tasks : DlSaved(t)
    \/ \E t \in tasks : DlRolledBack(t)
    \/ \E g \in 1..NumQueueEls : CallbackLoaded(g)
    \/ \E t \in tasks : UpdateResume(t) /\ UNCHANGED passVars
    \/ \E t \in tasks : SaveResume(t) /\ UNCHANGED passVars
    \/ RemoveRetainerBegin(PassPath) /\ UNCHANGED passVars
    \/ \E t \in tasks : RemoveRetainerResume(t) /\ UNCHANGED passVars

QueueSpec == QueueInit /\ [][QueueNext]_vars

\* The view-update passes of a note whose locators the user edits.
EditNext ==
    \/ \E docChanged \in BOOLEAN, edit \in Edits :
         editorViewUpdateListener(docChanged, edit)
    \/ ViewUpdateContinuation
    \/ \E t \in tasks : UpdateResume(t) /\ UNCHANGED passVars
    \/ \E t \in tasks : SaveResume(t) /\ UNCHANGED passVars

EditSpec == QueueInit /\ [][EditNext]_vars

\* The view-update passes of a note with embeds outside the viewport.
Docs == {[outside |-> o, parsed |-> b] :
            o \in {<<>>, <<S1>>, <<S2>>, <<LocalSrc>>}, b \in BOOLEAN}

ViewportNext ==
    \/ \E docChanged \in BOOLEAN : editorViewUpdateListener(docChanged, <<>>)
    \/ \E doc \in Docs : ViewUpdateContinuationOf(doc)
    \/ \E t \in tasks : UpdateResume(t) /\ UNCHANGED passVars
    \/ \E t \in tasks : SaveResume(t) /\ UNCHANGED passVars

ViewportSpec == QueueInit /\ [][ViewportNext]_vars

\* The view updates of a view that shows one note after another; seqNum
\* is 0 or later.
ContextNext ==
    \/ \E associatedFilePath \in Paths, seqNum \in {0, 1},
          docChanged \in BOOLEAN :
         editorViewUpdateListenerInContext(associatedFilePath, seqNum,
                                           docChanged)
    \/ ViewUpdateContinuation
    \/ \E t \in tasks : UpdateResume(t) /\ UNCHANGED passVars
    \/ \E t \in tasks : SaveResume(t) /\ UNCHANGED passVars

ContextSpec == QueueInit /\ [][ContextNext]_vars

\* A pass of the note with its downloads, next to requests of other
\* callers for the same sources.
FetchNext ==
    \/ requestCache
    \/ RequestCacheGroup
    \/ RequestCacheLoaded
    \/ \E force \in BOOLEAN : getCache(S1, force)
    \/ \E t \in tasks : DlExists(t)
    \/ \E t \in tasks, response \in QueueResponses :
         DlResponse(t, response)
    \/ \E t \in tasks : DlWritten(t)
    \/ \E t \in tasks : DlSaved(t)
    \/ \E t \in tasks : DlRolledBack(t)
    \/ \E g \in 1..NumQueueEls : CallbackLoaded(g)
    \/ \E t \in tasks : UpdateResume(t) /\ UNCHANGED passVars
    \/ \E t \in tasks : SaveResume(t) /\ UNCHANGED passVars

FetchSpec == QueueInit /\ [][FetchNext]_vars

\* A pass with downloads in flight while the user edits a locator.  The
\* placeholders of the note have been cancelled.
StaleInit ==
    /\ \E root \in InitRoots :
         /\ retainers = root.retainers
         /\ items = root.items
         /\ blobs = root.items
         /\ persisted = root
    /\ EMPTY_CACHE_ROOT = EmptyRoot
    /\ isMetadataDirty = FALSE
    /\ tasks = {}
    /\ call = Other
    /\ els \in [1..NumQueueEls ->
                 {el \in QueueEls : el.state = "ORIGINAL_SRC_REMOVED"}]
    /\ pass = IdlePass

StaleNext ==
    \/ requestCache
    \/ RequestCacheGroup
    \/ RequestCacheLoaded
    \/ \E t \in tasks, response \in QueueResponses :
         DlResponse(t, response)
    \/ \E t \in tasks : DlWritten(t)
    \/ \E t \in tasks : DlSaved(t)
    \/ \E t \in tasks : DlRolledBack(t)
    \/ \E g \in 1..NumQueueEls : CallbackLoaded(g)
    \/ \E edit \in Edits \ {<<>>} : editorViewUpdateListener(TRUE, edit)
    \/ ViewUpdateContinuation
    \/ \E t \in tasks : UpdateResume(t) /\ UNCHANGED passVars
    \/ \E t \in tasks : SaveResume(t) /\ UNCHANGED passVars

StaleSpec == StaleInit /\ [][StaleNext]_vars

\* The view updates of a note in which the user types an empty embed
\* above a link.
WorkaroundNext ==
    \/ \E docChanged \in BOOLEAN, sourcesToIgnore \in SUBSET {S1, S2} :
         editorViewUpdateListenerFrom(pass, docChanged, <<>>, sourcesToIgnore)
    \/ ViewUpdateContinuation
    \/ \E t \in tasks : UpdateResume(t) /\ UNCHANGED passVars
    \/ \E t \in tasks : SaveResume(t) /\ UNCHANGED passVars

WorkaroundSpec == QueueInit /\ [][WorkaroundNext]_vars

\* The clear-cache command while a pass has downloads in flight. The pass
\* records, for the properties, the downloads in flight when clearCached
\* was called and that clearCached has called back without error.
ClearWhileDownloading ==
    LET inFlight == {t.id : t \in {u \in tasks : u.kind = "dl"}}
    IN  /\ pass.pc = "returned"
        /\ pass.inFlightAtClear = {} /\ inFlight # {}
        /\ clearCachedBegin
        /\ pass' = [pass EXCEPT !.inFlightAtClear = inFlight]
        /\ els' = els

ClearWhileDownloadingResume(t) ==
    /\ clearCachedResume(t)
    /\ pass' = [pass EXCEPT
          !.cleared = @ \/ (t.step = "save" /\ t.ok)]
    /\ els' = els

ClearNext ==
    \/ requestCache
    \/ RequestCacheGroup
    \/ RequestCacheLoaded
    \/ \E t \in tasks, response \in QueueResponses :
         DlResponse(t, response)
    \/ \E t \in tasks : DlWritten(t)
    \/ \E t \in tasks : DlSaved(t)
    \/ \E t \in tasks : DlRolledBack(t)
    \/ \E g \in 1..NumQueueEls : CallbackLoaded(g)
    \/ \E t \in tasks : UpdateResume(t) /\ UNCHANGED passVars
    \/ \E t \in tasks : SaveResume(t) /\ UNCHANGED passVars
    \/ ClearWhileDownloading
    \/ \E t \in tasks : ClearWhileDownloadingResume(t)

ClearSpec == QueueInit /\ [][ClearNext]_vars

\* One download at a time, asked for by a client of the store. The pass
\* records, for the properties, items and the blobs as they were when
\* getCache was called.
getCacheNoting(src, force) ==
    /\ getCacheOf(src, force)
    /\ pass' = [pass EXCEPT !.before = [items |-> items, blobs |-> blobs]]
    /\ els' = els

RollbackNext ==
    \/ \E src \in {S1, S2}, force \in BOOLEAN : getCacheNoting(src, force)
    \/ \E t \in tasks : DlExists(t)
    \/ \E t \in tasks, response \in Responses : DlResponse(t, response)
    \/ \E t \in tasks : DlWritten(t)
    \/ \E t \in tasks : DlSaved(t)
    \/ \E t \in tasks : DlRolledBack(t)

RollbackSpec == Init /\ [][RollbackNext]_vars

\* The saves of the metadata after the passes' end calls. The pass records,
\* for the properties, how the last write of the file ended.
SaveResumeNoting(t) ==
    /\ SaveResume(t)
    /\ pass' = [pass EXCEPT
          !.lastSave = IF t.ok THEN "written" ELSE "failed"]
    /\ els' = els

SaveNext ==
    \/ \E p \in Paths, srcs \in EndLists : end(p, srcs) /\ UNCHANGED passVars
    \/ \E t \in tasks : UpdateResume(t) /\ UNCHANGED passVars
    \/ saveMetadataIfDirty /\ UNCHANGED passVars
    \/ \E t \in tasks : SaveResumeNoting(t)

SaveSpec == Init /\ [][SaveNext]_vars

(***************************************************************************)
(* The metadata file's modification time: saveMetadata,                    *)
(* onMetadataFileChangedExternally, and the writes of another instance.    *)
(***************************************************************************)
hasChangedExternally_sameTime(current, lastModified) ==
    current # 0 /\ current >= lastModified

\* current && current > this.metadataFileLastModified
hasChangedExternally(current, lastModified) ==
    current # 0 /\ current > lastModified

\* updateMetadataFileLastModified, when its stat resolves.
updateMetadataFileLastModified(file, own) ==
    [file EXCEPT !.metadataFileLastModified = IF file.mtime # 0 THEN file.mtime
                                              ELSE @,
                 !.foreign = FALSE, !.lastOwn = own]

\* saveMetadata up to the await of adapter.write, which writes the file.
saveMetadataWrite ==
    /\ pass.file.mtime < 1 + MaxWrites
    /\ \A t \in tasks : t.kind # "sv"
    /\ persisted' = CurrentRoot
    /\ pass' = [pass EXCEPT !.file.mtime = @ + 1,
                            !.file.lastCheck = "none"]
    /\ tasks' = tasks \cup {[kind |-> "sv", id |-> FreeIdIn(tasks),
                             step |-> "written"]}
    /\ UNCHANGED <<retainers, items, blobs, isMetadataDirty,
                   EMPTY_CACHE_ROOT, call, els>>

\* The write resolved: the flag is cleared and the file's time asked for;
\* then the stat resolved: the time is recorded.
saveMetadataResume(t) ==
    /\ t \in tasks /\ t.kind = "sv"
    /\ UNCHANGED <<retainers, items, blobs, persisted, EMPTY_CACHE_ROOT,
                   call, els>>
    /\ IF t.step = "written"
       THEN /\ isMetadataDirty' = FALSE
            /\ tasks' = (tasks \ {t}) \cup {[t EXCEPT !.step = "stat"]}
            /\ pass' = pass
       ELSE /\ isMetadataDirty' = isMetadataDirty
            /\ tasks' = tasks \ {t}
            /\ pass' = [pass EXCEPT
                  !.file = updateMetadataFileLastModified(@, "write")]

\* Another instance of the plugin writes the metadata file.
ExternalWrite(root) ==
    /\ pass.file.mtime < 1 + MaxWrites
    /\ persisted' = root
    /\ pass' = [pass EXCEPT !.file.mtime = @ + 1, !.file.foreign = TRUE,
                            !.file.lastCheck = "none"]
    /\ UNCHANGED <<retainers, items, blobs, isMetadataDirty,
                   EMPTY_CACHE_ROOT, tasks, call, els>>

\* onMetadataFileChangedExternally up to the await of the stat.
onMetadataFileChangedExternally ==
    /\ \A t \in tasks : t.kind # "chk"
    /\ tasks' = tasks \cup {[kind |-> "chk", id |-> FreeIdIn(tasks),
                             step |-> "stat"]}
    /\ UNCHANGED <<storeVars, call, passVars>>

\* The stat resolved: the comparison, then loadMetadata reads the file
\* into the root, then its updateMetadataFileLastModified.
onMetadataFileChangedExternallyResume(t) ==
    /\ t \in tasks /\ t.kind = "chk"
    /\ UNCHANGED <<blobs, isMetadataDirty, persisted, call, els>>
    /\ IF t.step = "stat"
       THEN /\ UNCHANGED <<retainers, items, EMPTY_CACHE_ROOT>>
            /\ IF hasChangedExternally(pass.file.mtime,
                                       pass.file.metadataFileLastModified)
               THEN /\ tasks' = (tasks \ {t}) \cup {[t EXCEPT !.step = "read"]}
                    /\ pass' = pass
               ELSE /\ tasks' = tasks \ {t}
                    /\ pass' = [pass EXCEPT !.file.lastCheck = "same"]
       ELSE IF t.step = "read"
       THEN /\ retainers' = persisted.retainers
            /\ items' = persisted.items
            /\ EMPTY_CACHE_ROOT' = IF EMPTY_CACHE_ROOT = Aliased
                                   THEN CurrentRoot ELSE EMPTY_CACHE_ROOT
            /\ tasks' = (tasks \ {t}) \cup {[t EXCEPT !.step = "loaded"]}
            /\ pass' = pass
       ELSE /\ UNCHANGED <<retainers, items, EMPTY_CACHE_ROOT>>
            /\ tasks' = tasks \ {t}
            /\ pass' = [pass EXCEPT
                  !.file = [updateMetadataFileLastModified(@, "read")
                            EXCEPT !.lastCheck = "reloaded"]]

MtimeNext ==
    \/ \E p \in Paths, q \in Paths : renameRetainer(p, q) /\ UNCHANGED passVars
    \/ saveMetadataWrite
    \/ \E t \in tasks : saveMetadataResume(t)
    \/ \E root \in InitRoots : ExternalWrite(root)
    \/ onMetadataFileChangedExternally
    \/ \E t \in tasks : onMetadataFileChangedExternallyResume(t)

MtimeSpec == Init /\ [][MtimeNext]_vars

(***************************************************************************)
(* Properties.                                                             *)
(***************************************************************************)
\* The retainer records whose refs contains the key.
Holders(rets, k) == {p \in DOMAIN rets : k \in Range(rets[p])}

KeysOf(srcs) == {createCacheKeyFromOriginalSrc(srcs[i]) : i \in 1..Len(srcs)}

\* C1: after any sequence of updateRetainedCaches, removeRetainer and
\* renameRetainer calls, for every key k of items, retainCount()[k] is the
\* number of retainer records whose refs contains k.
C1_RetainCountConsistency ==
    \A k \in items :
        retainCount(retainers, items)[k] = Cardinality(Holders(retainers, k))

C1_Witness ==
    /\ call.op = "update" /\ call.res = "done"
    /\ Len(call.reqs) = MaxReq /\ Cardinality(KeysOf(call.reqs)) = 1
    /\ \E k \in items : Cardinality(Holders(retainers, k)) = 2

\* C2: updateRetainedCaches deletes a key only if, after the update, no
\* retainer's refs contains it: a step of the call that removes the entry of
\* a key from items leaves no retainer that references the key.
C2_NeverDeletesReferencedKey ==
    [][\A k \in Keys :
          (/\ \E t \in tasks : t.kind = "upd" /\ t.ok /\ Head(t.todo) = k
           /\ k \in items
           /\ k \notin items')
          => Holders(retainers', k) = {}]_vars

\* C3: with K1 cached and retained by both retainers, the commit of a
\* retained set without K1 by one of them leaves K1 in items with its blob
\* and a retain count of 1; when the commit without K1 of the last retainer
\* of K1 deletes it, the entry and the blob are gone and no record holds K1.
C3_ReleaseScenario ==
    [][/\ \A p \in Paths :
            (/\ tasks = {}
             /\ K1 \in items /\ K1 \in blobs
             /\ Holders(retainers, K1) = Paths
             /\ call'.op = "update" /\ call'.n # call.n
             /\ call'.path = p
             /\ K1 \notin KeysOf(call'.reqs))
            => (/\ K1 \in items' /\ K1 \in blobs'
                /\ retainCount(retainers', items')[K1] = 1)
       /\ (/\ call.op = "update" /\ call.res = "running"
           /\ call'.op = "update" /\ call'.n = call.n
           /\ call'.res \in {"running", "done"}
           /\ \E t \in tasks : t.id = call.task /\ Head(t.todo) = K1)
          => (/\ K1 \notin items' /\ K1 \notin blobs'
              /\ Holders(retainers', K1) = {})]_vars

C3_Witness ==
    /\ call.op = "update" /\ call.res = "done"
    /\ K1 \notin KeysOf(call.reqs)
    /\ K1 \in persisted.items
    /\ K1 \notin items /\ K1 \notin blobs
    /\ Holders(retainers, K1) = {}
    /\ tasks = {}

C5_BlobIffItem == tasks = {} => blobs = items

\* C6: after every updateRetainedCaches call, every key in every
\* retainer's refs is a key of items.
C6_RefsAreItems ==
    (call.op = "update" /\ call.res \in {"done", "nochange"})
    => \A p \in DOMAIN retainers : Range(retainers[p]) \subseteq items

\* C7: after any updateRetainedCaches or removeRetainer call has returned,
\* normally or with an error from the removal of a blob, retainers has no
\* record whose refs is empty.
C7_NoEmptyRecord ==
    tasks = {} => \A p \in DOMAIN retainers : retainers[p] # <<>>

\* C8: within one pass the placeholders whose sources have the same cache
\* key form one group, and the pass makes exactly one lookup and at most
\* one download call for each group.
C8_OneGroupPerKey ==
    LET groups == pass.groups
        keyOf(i) == createCacheKeyFromRequest(groups[i].request)
    IN  /\ \A i, j \in 1..Len(groups) : keyOf(i) = keyOf(j) => i = j
        /\ \A i \in 1..Len(groups) :
              /\ groups[i].lookups <= 1
              /\ groups[i].downloads <= 1
              /\ pass.pc = "returned" => groups[i].lookups = 1
              /\ \A e \in Range(groups[i].imageElements) :
                    createCacheKeyFromOriginalSrc(els[e].src) = keyOf(i)
        /\ pass.pc \in {"loading", "returned"} =>
              \A e \in Range(pass.imageElements) :
                 els[e].src \in ValidSources =>
                    \E i \in 1..Len(groups) :
                       e \in Range(groups[i].imageElements)

C8_Witness ==
    /\ pass.pc = "returned"
    /\ \E i \in 1..Len(pass.groups) :
          /\ pass.groups[i].downloads = 1
          /\ pass.groups[i].lookups = 1
          /\ {els[e].src : e \in Range(pass.groups[i].imageElements)}
                = {S1, S1p}
          /\ Len(pass.groups[i].imageElements) = NumEls

\* C9: validateRequest returns an error for an empty source and for a
\* source that is not an http or https URL; getCache with such a source
\* reports that error, starts no download and leaves items, retainers, the
\* blobs and the dirty flag as they are.
C9_InvalidSourceRejected ==
    [][/\ \A src \in InvalidSources :
             validateRequest(createRequest(src, PassPath)) # "none"
       /\ (/\ call'.op = "getCache"
           /\ call' # call
           /\ call'.source \in InvalidSources)
          => (/\ ~call'.result.item
              /\ call'.result.error \in {ValidationError("KeyNotSet"),
                                         ValidationError("NotExternal")}
              /\ tasks' = tasks
              /\ UNCHANGED <<items, retainers, blobs, isMetadataDirty>>)
      ]_vars

C9_Witness ==
    /\ call.op = "getCache"
    /\ call.source = LocalSrc
    /\ call.result = CacheResult(FALSE, ValidationError("NotExternal"))
    /\ items # {}
    /\ tasks # {}

\* C10: a download that returns HTTP 404 gives the callback a
\* CacheFetchError with isRetryable = FALSE, and every placeholder of the
\* group that requested it becomes INVALID.
C10_NotFoundIsInvalid ==
    [][\A t \in tasks, response \in Responses :
          (/\ response.error = "null"
           /\ response.status = 404
           /\ DlResponse(t, response))
          => LET group == pass'.groups[t.cb]
             IN  /\ group.error.name = "CacheFetchError"
                 /\ ~group.error.isRetryable
                 /\ \A e \in Range(group.imageElements) :
                       els'[e].state = "INVALID"]_vars


\* The post-processor pass has finished entirely: its continuation has
\* returned, no download of it is in flight, no callback of it is
\* suspended, and no updateRetainedCaches or save of a pass is suspended.
PassFinished ==
    /\ pass.pc \in {"idle", "returned"}
    /\ \A t \in tasks : ~(t.kind = "dl" /\ t.cb # 0)
    /\ \A g \in 1..Len(pass.groups) : pass.groups[g].cb # "loading"
    /\ \A t \in tasks : t.kind \notin {"upd", "save"}

\* C11: the queued continuation of a later pass starts only after the
\* earlier pass has finished entirely, including its downloads, its end
\* call and the completion of its updateRetainedCaches.
C11_PassesNeverOverlap == [][ViewUpdateContinuation => PassFinished]_vars

\* C12: a mutation of the in-memory root by removeRetainer never runs
\* while the continuation of a pass is suspended at an await or while the
\* updateRetainedCaches of a pass is suspended.
C12_MutationsInsideQueue ==
    [][(RemoveRetainerBegin(PassPath) /\ retainers' # retainers)
       => (/\ pass.pc \in {"idle", "returned"}
           /\ \A t \in tasks : t.kind # "upd")]_vars

\* C13: when a pass calls end, every download of the pass has resolved
\* and its result has been applied to the placeholders of its group and
\* recorded in the retained set.
C13_EndAfterEveryGroup ==
    [][pass'.ends > pass.ends
       => \A g \in 1..Len(pass'.groups) :
             /\ pass'.groups[g].cb # "loading"
             /\ \A t \in tasks' : ~(t.kind = "dl" /\ t.cb = g)]_vars

\* C14: when a later pass of the retainer commits while a placeholder of
\* an earlier pass is in Requesting or Downloading for key K, the commit
\* keeps K in the refs of the retainer and deletes neither the blob nor
\* the metadata of K.
C14_InFlightReferenceKept ==
    [][\A i \in DOMAIN els :
         LET K == createCacheKeyFromOriginalSrc(els[i].src)
         IN  (/\ ViewUpdateContinuation
              /\ els[i].state \in {"REQUESTING", "REQUESTING_DOWNLOADING"}
              /\ PassPath \in DOMAIN retainers
              /\ K \in Range(retainers[PassPath]))
             => (/\ PassPath \in DOMAIN retainers'
                 /\ K \in Range(retainers'[PassPath])
                 /\ (K \in blobs => K \in blobs')
                 /\ (K \in items => K \in items'))]_vars

\* C18: a placeholder in SourceRemoved or Failed is selected for a cache
\* request by the next view-update pass that sees it.
C18_FailedIsSelected ==
    [][\A i \in DOMAIN els :
         (/\ ViewUpdateContinuation
          /\ pass.pc = "idle"
          /\ els[i].state \in {"ORIGINAL_SRC_REMOVED", "CACHE_FAILED"})
         => (pass'.pc = "stat" /\ Includes(pass'.imageElements, i))]_vars

\* C15: when clearCached completes without error, items and retainers are
\* empty in memory and in the persisted metadata, and no blob remains.
\* Stated of the step in which clearCached, every listed file removed,
\* resets the root and writes it: nothing else has run since the reset.
C15_ClearEmptiesEverything ==
    [][\A t \in tasks :
         (/\ t.kind = "clr" /\ t.step \in {"list", "remove"}
          /\ ClearResume(t)
          /\ \E u \in tasks' : u.kind = "clr" /\ u.step = "save" /\ u.ok)
         => (/\ items' = {} /\ retainers' = << >>
             /\ persisted' = [retainers |-> << >>, items |-> {}]
             /\ blobs' = {})]_vars

\* C16: clearCached cancels the downloads in flight: a download that was in
\* flight when clearCached was called adds no entry to items and no blob
\* after clearCached has completed.
C16_ClearCancelsDownloads ==
    [][\A t \in tasks :
         (/\ t.kind = "dl" /\ t.id \in pass.inFlightAtClear
          /\ pass.cleared
          /\ \/ \E response \in QueueResponses : DlResponse(t, response)
             \/ DlWritten(t))
         => (items' \subseteq items /\ blobs' \subseteq blobs)]_vars

\* C17: when a download fails with a fetch error of the retryable class (no
\* internet connection, or a status from 500 to 599), every placeholder of
\* the group becomes Failed, not Invalid.
C17_RetryableErrorIsFailed ==
    [][\A t \in tasks, response \in Responses :
          (/\ ~response.noStore
           /\ ResponseError(response).name = "CacheFetchError"
           /\ ResponseError(response).isRetryable
           /\ t.kind = "dl" /\ t.cb # 0
           /\ DlResponse(t, response))
          => \A e \in Range(pass'.groups[t.cb].imageElements) :
                els'[e].state = "CACHE_FAILED"]_vars

\* C20: when the metadata write fails after the blob was written, download
\* removes the blob and the key's entry, so that items and the blobs are
\* what they were when the download started, also when the key had an
\* entry before. Stated of the rollback whose adapter.remove succeeds.
C20_RollbackRestores ==
    [][\A t \in tasks :
         (/\ t.kind = "dl" /\ t.step = "saved" /\ ~t.ok
          /\ DlSaved(t)
          /\ \E u \in tasks' : u.id = t.id /\ u.step = "rollback" /\ u.ok)
         => (items' = pass.before.items /\ blobs' = pass.before.blobs)]_vars

\* The user has changed the locator of a Succeeded placeholder from U1 to
\* another one, and no other placeholder of the document holds U1.
EditedSucceeded ==
    /\ pass.edited.el # 0
    /\ pass.edited.state = "CACHE_SUCCEEDED"
    /\ pass.edited.from # pass.edited.to
    /\ \A j \in DOMAIN els :
          j # pass.edited.el =>
             els[j].src # pass.edited.from /\ els[j].attr # pass.edited.from

C21_RejectedResponseWritesNothing ==
    [][/\ \A src \in {S1, S2}, force \in BOOLEAN :
            getCacheNoting(src, force)
            => UNCHANGED <<blobs, items, persisted>>
       /\ \A t \in tasks :
            DlExists(t) => UNCHANGED <<blobs, items, persisted>>
       /\ \A t \in tasks, response \in Responses :
            (/\ response.error = "null"
             /\ response.noStore \/ response.status >= 400 \/ ~response.image
             /\ DlResponse(t, response))
            => (/\ UNCHANGED <<blobs, items, persisted>>
                /\ tasks' = tasks \ {t})]_vars

\* getCache has called back with the type error of a payload that is not
\* an image, for a source that had no entry.
C21_Witness ==
    /\ call.op = "getCache"
    /\ call.result.error = CacheTypeError
    /\ tasks = {}
    /\ createCacheKeyFromOriginalSrc(call.source) \notin items \cup blobs

\* C22: the fetch error a download returns is marked retryable exactly
\* when the request failed on the network or the status is from 500 to
\* 599; it is not retryable for a status from 400 to 499.
C22_RetryableIffNetworkOr5xx ==
    [][\A t \in tasks, response \in Responses :
         (/\ DlResponse(t, response)
          /\ call'.op = "getCache"
          /\ call'.result.error.name = "CacheFetchError")
         => (call'.result.error.isRetryable
             <=> \/ response.error # "null"
                 \/ (response.status >= 500 /\ response.status < 600))]_vars

C25_RemoveKeepsReferencedKeys ==
    [][\A t \in tasks :
         (/\ t.kind = "rr" /\ t.ok
          /\ RemoveRetainerResume(t)
          /\ Head(t.todo) \in items)
         => Holders(retainers', Head(t.todo)) \subseteq {t.path}]_vars

\* C26: renameRetainer(oldPath, newPath) moves oldPath's refs unchanged to
\* newPath and removes the record of oldPath, and the retain count of every
\* key is the same before and after, for any two paths; when oldPath has
\* no record nothing changes.
C26_RenameKeepsCounts ==
    [][\A oldPath \in Paths, path \in Paths :
         renameRetainer(oldPath, path)
         => IF oldPath \in DOMAIN retainers
            THEN /\ path \in DOMAIN retainers'
                 /\ retainers'[path] = retainers[oldPath]
                 /\ path # oldPath => oldPath \notin DOMAIN retainers'
                 /\ \A k \in Keys :
                       Cardinality(Holders(retainers', k))
                          = Cardinality(Holders(retainers, k))
            ELSE UNCHANGED <<storeVars, tasks>>]_vars

\* C27: a view-update pass that commits leaves in the refs of its note
\* every key whose valid external locator is in the note outside the
\* viewport.
C27_OutsideViewportStaysRetained ==
    [][\A doc \in Docs :
         (ViewUpdateContinuationOf(doc) /\ call'.op = "update")
         => \A i \in DOMAIN doc.outside :
              LET key == createCacheKeyFromOriginalSrc(doc.outside[i])
              IN  (/\ isValidExternalUrl(doc.outside[i])
                   /\ PassPath \in DOMAIN retainers
                   /\ Includes(retainers[PassPath], key))
                  => /\ PassPath \in DOMAIN retainers'
                     /\ Includes(retainers'[PassPath], key)]_vars

Fetching == {t \in tasks : t.kind = "dl" /\ t.step = "request"}

\* C29: no two network fetches for one cache key are in flight, and a
\* request for a key that is registered as downloading starts no fetch.
C29_OneFetchPerKey ==
    /\ \A t \in Fetching, u \in Fetching :
         createCacheKeyFromOriginalSrc(t.source)
            = createCacheKeyFromOriginalSrc(u.source) => t = u
    /\ [][\A force \in BOOLEAN :
            (/\ getCache(S1, force)
             /\ \E t \in {u \in tasks : u.kind = "dl" /\ u.step # "exists"} :
                  createCacheKeyFromOriginalSrc(t.source)
                     = createCacheKeyFromOriginalSrc(S1))
            => Fetching' \subseteq Fetching]_vars

\* C30: the result of a download that arrives for a placeholder whose
\* locator was edited while it was requested changes neither the state nor
\* the sources of that placeholder, and the old locator is not retained
\* for a group that has no other placeholder.
C30_ResultForResetPlaceholderDisregarded ==
    [][\A g \in DOMAIN pass.groups :
         LET group == pass.groups[g]
             i == pass.edited.el
         IN  (/\ i # 0
              /\ pass.edited.to # pass.edited.from
              /\ Includes(group.imageElements, i)
              /\ pass.edited.state \in {"REQUESTING", "REQUESTING_DOWNLOADING"}
              /\ group.cb # "done"
              /\ g \in DOMAIN pass'.groups
              /\ pass'.groups[g].cb = "done")
             => /\ els'[i] = els[i]
                /\ (/\ Len(group.imageElements) = 1
                    /\ ~Includes(pass.requestsToRetain, group.request.source))
                   => ~Includes(pass'.requestsToRetain,
                                group.request.source)]_vars

\* C31: every step changes the state of a placeholder along the table:
\* Original to SourceRemoved, SourceRemoved or Failed to Requesting,
\* Requesting to Succeeded or Downloading, Downloading to Succeeded or
\* Failed, Requesting or Downloading to Invalid, or a reset to Original;
\* a listener that resets a placeholder cancels it in the same call.
C31_OnlyTableTransitions ==
    [][\A i \in DOMAIN els :
         \/ els'[i].state = els[i].state
         \/ els'[i].state \in {"ORIGINAL", "ORIGINAL_SRC_REMOVED"}
         \/ <<els[i].state, els'[i].state>> \in
              {<<"ORIGINAL_SRC_REMOVED", "REQUESTING">>,
               <<"CACHE_FAILED", "REQUESTING">>,
               <<"REQUESTING", "CACHE_SUCCEEDED">>,
               <<"REQUESTING", "REQUESTING_DOWNLOADING">>,
               <<"REQUESTING_DOWNLOADING", "CACHE_SUCCEEDED">>,
               <<"REQUESTING_DOWNLOADING", "CACHE_FAILED">>,
               <<"REQUESTING", "INVALID">>,
               <<"REQUESTING_DOWNLOADING", "INVALID">>}]_vars

\* C32: the end of a pass begun from the post-processor takes no key out
\* of the refs of its note and deletes no cache entry: it only adds refs.
C32_PostProcessorPassOnlyAdds ==
    [][/\ PassPath \in DOMAIN retainers
          => /\ PassPath \in DOMAIN retainers'
             /\ Range(retainers[PassPath]) \subseteq Range(retainers'[PassPath])
       /\ \A t \in tasks : UpdateResume(t) => items \subseteq items']_vars

C38_ReloadKeepsDirtyChanges ==
    [][\A t \in tasks :
         (/\ t.kind = "chk" /\ t.step = "read"
          /\ onMetadataFileChangedExternallyResume(t)
          /\ isMetadataDirty
          /\ \A u \in tasks : u.kind # "sv")
         => /\ retainers' = retainers
            /\ items' = items]_vars

\* getViewMetadata: v[METADATA_KEY] ?? DEFAULT, the reference returned.
getViewMetadata(vs, view) ==
    IF vs.metadata[view] # "undefined" THEN vs.metadata[view] ELSE "DEFAULT"

\* The requesterPath getViewMetadata returns for the view.
ViewFilePath(vs, view) == vs.objects[getViewMetadata(vs, view)].requesterPath

\* A file is opened in the view: CodeMirror destroys the view plugin and
\* makes a new one, whose seqNum is 0; the metadata stays on the view.
OpenFile(view, path) ==
    /\ pass.views.file[view] # path
    /\ pass' = [pass EXCEPT !.views.file[view] = path,
                            !.views.seqNum[view] = 0]
    /\ UNCHANGED <<storeVars, tasks, call, els>>

\* postUpdate hands seqNum++ to the listener, which calls
\* abortIfInvalidContext: data = getViewMetadata(view); with another path
\* at seqNum 0, data.requesterPath = path and setViewMetadata(view, data).
ViewUpdate(view) ==
    LET vs == pass.views
        seqNum == vs.seqNum[view]
        associatedFilePath == vs.file[view]
        data == getViewMetadata(vs, view)
        r == abortIfInvalidContext(associatedFilePath,
                                   vs.objects[data].requesterPath, seqNum)
        adopts == associatedFilePath # NoFile
                     /\ vs.objects[data].requesterPath # associatedFilePath
                     /\ seqNum = 0
    IN  /\ seqNum < MaxSeqNum
        /\ pass' = [pass EXCEPT
              !.views.seqNum[view] = seqNum + 1,
              !.views.aborted[view] = associatedFilePath # NoFile /\ r.abort,
              !.views.objects[data].requesterPath =
                  IF adopts THEN associatedFilePath ELSE @,
              !.views.metadata[view] = IF adopts THEN data ELSE @]
        /\ UNCHANGED <<storeVars, tasks, call, els>>

ViewsNext ==
    \/ \E view \in Views, path \in Paths \cup {NoFile} : OpenFile(view, path)
    \/ \E view \in Views : ViewUpdate(view)

ViewsSpec == Init /\ [][ViewsNext]_vars

\* C40: a view update of one view leaves the requesterPath that
\* getViewMetadata returns for every other view as it was.
C40_ViewMetadataIndependent ==
    [][\A view \in Views :
         ViewUpdate(view) =>
            \A other \in Views \ {view} :
               ViewFilePath(pass'.views, other) = ViewFilePath(pass.views, other)]_vars

====
